---- MODULE Spec2Model ----
(***************************************************************************)
(* Flow decomposition (main.py) and its scorer (score.py).                 *)
(*                                                                         *)
(* Spec  : one run of decompose_flow on a parsed .graph file, one action   *)
(*         per iteration of its two loops.                                 *)
(* SpecV : one call of verify_solution on a .graph file, a candidate .out  *)
(*         file and a .truth file.                                         *)
(***************************************************************************)
EXTENDS Integers, Sequences, FiniteSets, TLC

VARIABLES
    graph_file,   \* the .graph file: [V, edges], edges a sequence of [u, v, f]
    adj,          \* Graph.adj: u -> sequence of [v, f] in insertion order
    P,            \* decompose_flow's list of (weight, path_nodes)
    C,            \* decompose_flow's list of (weight, explicit_cycle_nodes)
    pc,           \* where the run is
    out_file,     \* the parsed candidate .out file: [paths, cycles]
    truth_file,   \* the parsed .truth file: [paths, cycles]
    test,         \* verify_solution's argument test
    result,       \* what verify_solution did: [kind, val, diag, idx]
    total_score,  \* __main__'s total_score
    fixtures_left \* .graph files the batch loop has still to visit

vars == <<graph_file, adj, P, C, pc, out_file, truth_file, test, result,
          total_score, fixtures_left>>

----------------------------------------------------------------------------
(* Bounds of the model. *)

MaxV == 3        \* vertex counts 1..MaxV for the decomposer
MaxE == 3        \* edge lines per .graph file for the decomposer
MaxFlow == 1     \* edge flows 0..MaxFlow for the decomposer

MaxNodes == 3    \* vertices on a line of a candidate .out file
MaxWeight == 2   \* weights 1..MaxWeight of the lines of a candidate .out file

MaxFixtures == 2 \* .graph files in the directory of a batch run

\* Python's None, as a parent of the search root (vertices are >= 1).
None == 0

\* decompose_flow's second loop has no bound of its own; the model stops
\* it after more records than any run with non-negative residuals emits.
IterCap == MaxE * MaxFlow + 2

----------------------------------------------------------------------------
(* Small helpers. *)

MinOf(S) == CHOOSE x \in S : \A y \in S : x <= y

Range(s) == {s[i] : i \in 1..Len(s)}

RECURSIVE SumSeq(_)
SumSeq(s) == IF s = <<>> THEN 0 ELSE Head(s) + SumSeq(Tail(s))

Reverse(s) == [i \in 1..Len(s) |-> s[Len(s) + 1 - i]]

----------------------------------------------------------------------------
(* main.py: the graph. *)

\* parse_input + Graph.add_edge: every edge line is appended to adj[u].
RECURSIVE add_edges(_, _)
add_edges(g, edges) ==
    IF edges = <<>> THEN g
    ELSE LET e == Head(edges)
         IN add_edges([g EXCEPT ![e.u] = Append(@, [v |-> e.v, f |-> e.f])],
                      Tail(edges))

parse_input(file) == add_edges([u \in 1..file.V |-> <<>>], file.edges)

\* "for v, flow_list in graph.adj[u]: if v == target: ...; break":
\* the index of the first record of adj[u] that leads to target, 0 if none.
FirstMatch(adjU, target) ==
    IF \E i \in 1..Len(adjU) : adjU[i].v = target
    THEN MinOf({i \in 1..Len(adjU) : adjU[i].v = target})
    ELSE 0

\* The pass over adj[u] made from its last record to its first.
RECURSIVE Expand_lastFirst(_, _, _, _, _)
Expand_lastFirst(adjU, i, u, queue, parent) ==
    IF i > Len(adjU) THEN [queue |-> queue, parent |-> parent]
    ELSE LET e == adjU[Len(adjU) + 1 - i]
         IN IF e.f > 0 /\ e.v \notin DOMAIN parent
            THEN Expand_lastFirst(adjU, i + 1, u, Append(queue, e.v),
                                  parent @@ (e.v :> u))
            ELSE Expand_lastFirst(adjU, i + 1, u, queue, parent)

\* One pass of "for v, flow_list in graph.adj[u]" inside a search: every
\* edge with flow > 0 to a vertex without a parent records u as the parent
\* and enqueues the vertex.
RECURSIVE Expand(_, _, _, _, _)
Expand(adjU, i, u, queue, parent) ==
    IF i > Len(adjU) THEN [queue |-> queue, parent |-> parent]
    ELSE LET e == adjU[i]
         IN IF e.f > 0 /\ e.v \notin DOMAIN parent
            THEN Expand(adjU, i + 1, u, Append(queue, e.v), parent @@ (e.v :> u))
            ELSE Expand(adjU, i + 1, u, queue, parent)

\* The "while queue" loop of find_path and find_path_back.
RECURSIVE Search(_, _, _, _)
Search(g, queue, parent, target) ==
    IF queue = <<>> THEN [found |-> FALSE, parent |-> parent]
    ELSE LET u == Head(queue)
         IN IF u = target THEN [found |-> TRUE, parent |-> parent]
            ELSE LET r == Expand(g[u], 1, u, Tail(queue), parent)
                 IN Search(g, r.queue, r.parent, target)

\* "while current is not None: path_nodes.append(current); current =
\* parent.get(current)": the nodes from current back to the root.
RECURSIVE Backtrack(_, _)
Backtrack(parent, current) ==
    IF current = None THEN <<>>
    ELSE <<current>> \o Backtrack(parent, parent[current])

\* The flows min_flow is taken over: for every consecutive pair of nodes,
\* the flow of the first record of adj[u] that leads to the next node.
EdgeFlows(g, nodes) ==
    [i \in 1..(Len(nodes) - 1) |->
        g[nodes[i]][FirstMatch(g[nodes[i]], nodes[i + 1])].f]

\* find_path with the sink taken one vertex too low (t = V - 1).
find_path_sinkOffByOne(g, V) ==
    LET r == Search(g, <<1>>, (1 :> None), V - 1)
    IN IF ~r.found THEN [status |-> "none", nodes |-> <<>>, weight |-> 0]
       ELSE LET nodes == Reverse(Backtrack(r.parent, V - 1))
                flows == EdgeFlows(g, nodes)
            IN IF flows = <<>>
               THEN [status |-> "raise", nodes |-> nodes, weight |-> 0]
               ELSE [status |-> "found", nodes |-> nodes,
                     weight |-> MinOf(Range(flows))]

\* find_path: [status, nodes, weight]. status "none" is (None, 0); "raise"
\* is int(float('inf')), which happens when the walk has no edge (s = t).
find_path(g, V) ==
    LET r == Search(g, <<1>>, (1 :> None), V)
    IN IF ~r.found THEN [status |-> "none", nodes |-> <<>>, weight |-> 0]
       ELSE LET nodes == Reverse(Backtrack(r.parent, V))
                flows == EdgeFlows(g, nodes)
            IN IF flows = <<>>
               THEN [status |-> "raise", nodes |-> nodes, weight |-> 0]
               ELSE [status |-> "found", nodes |-> nodes,
                     weight |-> MinOf(Range(flows))]

\* find_path_back with the search started at target_node.
find_path_back_fromTarget(g, start_node, target_node, initial_flow_edge) ==
    LET r == Search(g, <<target_node>>, (target_node :> None), target_node)
    IN IF ~r.found THEN [status |-> "none", nodes |-> <<>>, weight |-> 0]
       ELSE LET nodes == Reverse(Backtrack(r.parent, target_node))
                flows == EdgeFlows(g, nodes)
            IN [status |-> "found", nodes |-> nodes,
                weight |-> MinOf(Range(flows) \cup {initial_flow_edge})]

\* find_path_back(start_node, target_node, initial_flow_edge).
find_path_back(g, start_node, target_node, initial_flow_edge) ==
    LET r == Search(g, <<start_node>>, (start_node :> None), target_node)
    IN IF ~r.found THEN [status |-> "none", nodes |-> <<>>, weight |-> 0]
       ELSE LET nodes == Reverse(Backtrack(r.parent, target_node))
                flows == EdgeFlows(g, nodes)
            IN [status |-> "found", nodes |-> nodes,
                weight |-> MinOf(Range(flows) \cup {initial_flow_edge})]

\* find_cycle's test of what find_path_back returned.
CycleAccepted(r) == r.status = "found" /\ r.weight > 0

\* find_cycle's scan "for u in range(1, V + 1): for v, flow_list in adj[u]".
RECURSIVE ScanCycle(_, _, _, _)
ScanCycle(g, V, u, i) ==
    IF u > V THEN [status |-> "none", nodes |-> <<>>, weight |-> 0]
    ELSE IF i > Len(g[u]) THEN ScanCycle(g, V, u + 1, 1)
    ELSE LET e == g[u][i]
             r == find_path_back(g, e.v, u, e.f)
         IN IF e.f > 0 /\ CycleAccepted(r)
            THEN \* full_cycle = [u] + path_nodes; return full_cycle[:-1]
                 [status |-> "found",
                  nodes  |-> SubSeq(<<u>> \o r.nodes, 1, Len(r.nodes)),
                  weight |-> r.weight]
            ELSE ScanCycle(g, V, u, i + 1)

find_cycle(g, V) == ScanCycle(g, V, 1, 1)

\* The subtraction with the sign wrong: "flow_list[0] += weight".
RECURSIVE Subtract_plus(_, _, _)
Subtract_plus(g, pairs, weight) ==
    IF pairs = <<>> THEN g
    ELSE LET u == Head(pairs)[1]
             k == FirstMatch(g[u], Head(pairs)[2])
         IN Subtract_plus(IF k = 0 THEN g ELSE [g EXCEPT ![u][k].f = @ + weight],
                          Tail(pairs), weight)

\* "for next_v, flow_list in adj[u]: if next_v == v: flow_list[0] -= weight;
\* break", for every pair of pairs in turn.
RECURSIVE Subtract(_, _, _)
Subtract(g, pairs, weight) ==
    IF pairs = <<>> THEN g
    ELSE LET u == Head(pairs)[1]
             k == FirstMatch(g[u], Head(pairs)[2])
         IN Subtract(IF k = 0 THEN g ELSE [g EXCEPT ![u][k].f = @ - weight],
                     Tail(pairs), weight)

\* "for i in range(len(path_nodes) - 1): u, v = path_nodes[i], path_nodes[i+1]"
PathPairs(nodes) == [i \in 1..(Len(nodes) - 1) |-> <<nodes[i], nodes[i + 1]>>]

\* The pairs of a cycle without the pair that closes it.
CyclePairs_noWrap(nodes) ==
    [i \in 1..(Len(nodes) - 1) |-> <<nodes[i], nodes[i + 1]>>]

\* "for i in range(len(cycle_nodes)): u = cycle_nodes[i];
\*  v = cycle_nodes[(i + 1) % len(cycle_nodes)]"
CyclePairs(nodes) ==
    [i \in 1..Len(nodes) |-> <<nodes[i], nodes[(i % Len(nodes)) + 1]>>]

\* The loops running for as long as some record of adj holds flow.
Extracted_whileResidual(r) ==
    \/ r.status = "found" /\ r.weight # 0
    \/ \E u \in DOMAIN adj : \E i \in DOMAIN adj[u] : adj[u][i].f > 0

\* The loop test with "or weight == 0" forgotten.
Extracted_noZeroTest(r) == r.status = "found"

\* decompose_flow's loop tests "path_nodes is None or weight == 0".
Extracted(r) == r.status = "found" /\ r.weight # 0

\* The cycle as find_cycle returns it, without the closing vertex.
explicit_cycle_nodes_unclosed(cycle_nodes) == cycle_nodes

\* "explicit_cycle_nodes = cycle_nodes + [start_node]"
explicit_cycle_nodes(cycle_nodes) == cycle_nodes \o <<cycle_nodes[1]>>

----------------------------------------------------------------------------
(* score.py: the verifier.  A parsed .out or .truth file is                *)
(* [paths, cycles], each a sequence of [weight, nodes]; its header counts  *)
(* are the lengths of the two sequences, as parse_output reads exactly     *)
(* that many lines.  A returned False is the value 0 (Python's False == 0).*)

\* The 40 of the score and of a fixture that fails validate_test.
BaseScore == 40
\* validate_test's limits.
LimitV == 50
LimitE == 100
LimitFlow == 1000
LimitRecords == 20

\* The capacities of the lines lo..hi of edges that are lines (u, v), added
\* up: those of the first half of the lines, plus those of the second half.
RECURSIVE capacity_sum(_, _, _, _)
capacity_sum(edges, k, lo, hi) ==
    IF lo > hi THEN 0
    ELSE IF lo = hi
    THEN (IF <<edges[lo].u, edges[lo].v>> = k THEN edges[lo].f ELSE 0)
    ELSE LET mid == (lo + hi) \div 2
         IN capacity_sum(edges, k, lo, mid) + capacity_sum(edges, k, mid + 1, hi)

\* score.py's parse_input: "if (u, v) in network_flow: network_flow[(u, v)]
\* += capacity; else: network_flow[(u, v)] = capacity", for every line: the
\* dictionary holds every (u, v) of the lines with the sum of its capacities.
merge_edges(edges) ==
    [k \in {<<edges[i].u, edges[i].v>> : i \in DOMAIN edges} |->
        capacity_sum(edges, k, 1, Len(edges))]

score_parse_input(file) ==
    [V |-> file.V, E |-> Len(file.edges), flow |-> merge_edges(file.edges)]

\* The walk over the pairs with an unknown (u, v) skipped, not refused.
RECURSIVE add_pairs_skipUnknown(_, _, _, _)
add_pairs_skipUnknown(calc, nodes, i, w) ==
    IF i >= Len(nodes) THEN [ok |-> TRUE, calc |-> calc]
    ELSE LET k == <<nodes[i], nodes[i + 1]>>
         IN IF k \notin DOMAIN calc THEN add_pairs_skipUnknown(calc, nodes, i + 1, w)
            ELSE add_pairs_skipUnknown([calc EXCEPT ![k] = @ + w], nodes, i + 1, w)

\* "for i in range(len(nodes) - 1): u, v = nodes[i], nodes[i+1]; if (u, v)
\* not in calculated_flow: return False; calculated_flow[(u, v)] += w"
RECURSIVE add_pairs(_, _, _, _)
add_pairs(calc, nodes, i, w) ==
    IF i >= Len(nodes) THEN [ok |-> TRUE, calc |-> calc]
    ELSE LET k == <<nodes[i], nodes[i + 1]>>
         IN IF k \notin DOMAIN calc THEN [ok |-> FALSE, calc |-> calc]
            ELSE add_pairs([calc EXCEPT ![k] = @ + w], nodes, i + 1, w)

\* nodes[0] and nodes[-1] of a path with no vertices raise IndexError.
EndpointCheck(nodes, sink) ==
    IF nodes = <<>> THEN "raise"
    ELSE IF nodes[1] # 1 \/ nodes[Len(nodes)] # sink THEN "bad"
    ELSE "ok"

\* "for idx, p in enumerate(paths)".
RECURSIVE add_paths(_, _, _, _)
add_paths(calc, paths, idx, sink) ==
    IF idx > Len(paths) THEN [status |-> "ok", calc |-> calc, idx |-> 0]
    ELSE LET p == paths[idx]
             ends == EndpointCheck(p.nodes, sink)
             r == add_pairs(calc, p.nodes, 1, p.weight)
         IN IF ends = "raise" THEN [status |-> "raise", calc |-> calc, idx |-> idx]
            ELSE IF ends = "bad" THEN [status |-> "endpoint", calc |-> calc, idx |-> idx]
            ELSE IF ~r.ok THEN [status |-> "edge", calc |-> r.calc, idx |-> idx]
            ELSE add_paths(r.calc, paths, idx + 1, sink)

\* "for idx, c in enumerate(cycles)".
RECURSIVE add_cycles(_, _, _)
add_cycles(calc, cycles, idx) ==
    IF idx > Len(cycles) THEN [status |-> "ok", calc |-> calc, idx |-> 0]
    ELSE LET c == cycles[idx]
             r == add_pairs(calc, c.nodes, 1, c.weight)
         IN IF ~r.ok THEN [status |-> "edge", calc |-> r.calc, idx |-> idx]
            ELSE add_cycles(r.calc, cycles, idx + 1)

\* Lines 125-153: the flow reconstructed from a candidate, or the first
\* failure met on the way.
calculated_flow(net, out) ==
    LET rp == add_paths([k \in DOMAIN net.flow |-> 0], out.paths, 1, net.V)
    IN IF rp.status # "ok" THEN rp ELSE add_cycles(rp.calc, out.cycles, 1)

\* The score without its floor of 1.
score_noFloor(truth, out) ==
    BaseScore + Len(truth.paths) + Len(truth.cycles)
        - (Len(out.paths) + Len(out.cycles))

\* "score = max(1, 40 + num_paths_opt + num_cycles_opt - (len(paths) + len(cycles)))"
score(truth, out) ==
    LET x == BaseScore + Len(truth.paths) + Len(truth.cycles)
                 - (Len(out.paths) + Len(out.cycles))
    IN IF x >= 1 THEN x ELSE 1

\* Lines 155-160: "if calc != flow: is_valid = False" on some original edge.
flow_mismatch_onlyMissing(flow, calc) == \E k \in DOMAIN flow : calc[k] < flow[k]

flow_mismatch(flow, calc) == \E k \in DOMAIN flow : calc[k] # flow[k]

\* Lines 122-168 of verify_solution: what follows the parsing and the
\* fixture's validation.
verify_body(file, truth, out) ==
    LET net == score_parse_input(file)
        r == calculated_flow(net, out)
    IN IF r.status = "raise"
       THEN [kind |-> "raise", val |-> 0, diag |-> "IndexError", idx |-> r.idx]
       ELSE IF r.status # "ok"
       THEN [kind |-> "return", val |-> 0, diag |-> r.status, idx |-> r.idx]
       ELSE IF flow_mismatch(net.flow, r.calc)
       THEN [kind |-> "return", val |-> 0, diag |-> "mismatch", idx |-> 0]
       ELSE [kind |-> "return", val |-> score(truth, out), diag |-> "success", idx |-> 0]

\* validate_test: "True", "False", or "raise" when the self-verification of
\* the truth file raises.
validate_test(file, truth) ==
    LET net == score_parse_input(file)
        self == verify_body(file, truth, truth)
    IN IF net.V > LimitV \/ net.E > LimitE
          \/ \E k \in DOMAIN net.flow : net.flow[k] > LimitFlow
       THEN "False"
       ELSE IF Len(truth.paths) > LimitRecords \/ Len(truth.cycles) > LimitRecords
       THEN "False"
       ELSE IF self.kind = "raise" THEN "raise"
       ELSE IF self.val = 0 THEN "False"
       ELSE "True"

\* verify_solution(input_file, truth_file, output_file, test).
verify_solution(file, truth, out, t) ==
    LET valid == validate_test(file, truth)
    IN IF ~t /\ valid = "raise"
       THEN [kind |-> "raise", val |-> 0, diag |-> "IndexError", idx |-> 0]
       ELSE IF ~t /\ valid = "False"
       THEN [kind |-> "return", val |-> BaseScore, diag |-> "constraints", idx |-> 0]
       ELSE verify_body(file, truth, out)

----------------------------------------------------------------------------
(* The .graph files the decomposer is run on.  adj[u] keeps the lines of   *)
(* source u in file order and nothing else of the order of the file, so    *)
(* the files are listed with their lines grouped by ascending u.           *)

EdgeLines(V) == [u : 1..V, v : 1..V, f : 0..MaxFlow]

RECURSIVE EdgeLists(_, _)
EdgeLists(V, n) ==
    IF n = 0 THEN {<<>>}
    ELSE LET S == EdgeLists(V, n - 1)
         IN S \cup {Append(s, e) :
                      <<s, e>> \in {x \in {t \in S : Len(t) = n - 1} \X EdgeLines(V) :
                                      x[1] = <<>> \/ x[1][Len(x[1])].u <= x[2].u}}

GraphFiles == UNION {[V : {n}, edges : EdgeLists(n, MaxE)] : n \in 1..MaxV}

NoFile == [paths |-> <<>>, cycles |-> <<>>]
NoResult == [kind |-> "none", val |-> 0, diag |-> "", idx |-> 0]

----------------------------------------------------------------------------
(* Spec: decompose_flow(parse_input(graph_file)). *)

Init ==
    /\ graph_file \in GraphFiles
    /\ adj = parse_input(graph_file)
    /\ P = <<>>
    /\ C = <<>>
    /\ pc = "path"
    /\ out_file = NoFile
    /\ truth_file = NoFile
    /\ test = FALSE
    /\ result = NoResult
    /\ total_score = 0
    /\ fixtures_left = 0

\* One iteration of "1. Path Decomposition": find_path, then either the
\* break into the second loop or the append to P and the subtraction.
\* find_path's OverflowError (int(float('inf'))) ends the run.
PathIteration ==
    /\ pc = "path"
    /\ LET r == find_path(adj, graph_file.V)
       IN IF r.status = "raise"
          THEN pc' = "raised" /\ UNCHANGED <<adj, P>>
          ELSE IF ~Extracted(r)
          THEN pc' = "cycle" /\ UNCHANGED <<adj, P>>
          ELSE /\ P' = Append(P, [weight |-> r.weight, nodes |-> r.nodes])
               /\ adj' = Subtract(adj, PathPairs(r.nodes), r.weight)
               /\ pc' = pc
    /\ UNCHANGED <<graph_file, C, out_file, truth_file, test, result,
                 total_score, fixtures_left>>

\* The cycle loop nested in the path loop: after a cycle has been
\* subtracted, paths are searched for again.
CycleIteration_backToPaths ==
    /\ pc = "cycle"
    /\ Len(C) < IterCap
    /\ LET r == find_cycle(adj, graph_file.V)
       IN IF ~Extracted(r)
          THEN pc' = "done" /\ UNCHANGED <<adj, C>>
          ELSE /\ C' = Append(C, [weight |-> r.weight,
                                  nodes |-> explicit_cycle_nodes(r.nodes)])
               /\ adj' = Subtract(adj, CyclePairs(r.nodes), r.weight)
               /\ pc' = "path"
    /\ UNCHANGED <<graph_file, P, out_file, truth_file, test, result,
                 total_score, fixtures_left>>

\* One iteration of "2. Cycle Decomposition": find_cycle, then either the
\* break and "return P, C" or the append to C and the subtraction.
CycleIteration ==
    /\ pc = "cycle"
    /\ Len(C) < IterCap
    /\ LET r == find_cycle(adj, graph_file.V)
       IN IF ~Extracted(r)
          THEN pc' = "done" /\ UNCHANGED <<adj, C>>
          ELSE /\ C' = Append(C, [weight |-> r.weight,
                                  nodes |-> explicit_cycle_nodes(r.nodes)])
               /\ adj' = Subtract(adj, CyclePairs(r.nodes), r.weight)
               /\ pc' = pc
    /\ UNCHANGED <<graph_file, P, out_file, truth_file, test, result,
                 total_score, fixtures_left>>

Next == PathIteration \/ CycleIteration

Spec == Init /\ [][Next]_vars

----------------------------------------------------------------------------
(* SpecV: verify_solution(graph_file, truth_file, out_file, test).         *)
(* The fixtures are the networks on the two vertices 1 (source) and 2     *)
(* (sink) with at most two edge lines of flow 1 or 2, with a truth file of *)
(* at most one path line.  A candidate holds at most one path line and one *)
(* cycle line, or a path line and PadLen cycle lines "0" (weight 0, no     *)
(* vertices), which add nothing to the reconstruction and count as cycles  *)
(* in the score.                                                           *)

NetVertices == {1, 2}
NetFlows == {1, 2}

NetLines == [u : NetVertices, v : NetVertices, f : NetFlows]

\* score.py's parse_input adds duplicate lines up whatever their order, so
\* the files are listed with their lines in one order.
LineRank(e) == (e.u * 3 + e.v) * 3 + e.f

NetEdgeLists ==
    {<<>>} \cup {<<e>> : e \in NetLines}
           \cup {<<d, e>> : <<d, e>> \in {x \in NetLines \X NetLines :
                                            LineRank(x[1]) <= LineRank(x[2])}}

NetFiles == [V : {Cardinality(NetVertices)}, edges : NetEdgeLists]

RECURSIVE NodeLists(_)
NodeLists(n) ==
    IF n = 0 THEN {<<>>}
    ELSE LET S == NodeLists(n - 1)
         IN S \cup {Append(s, x) : s \in {t \in S : Len(t) = n - 1}, x \in NetVertices}

Lines == [weight : 1..MaxWeight, nodes : NodeLists(MaxNodes)]

AtMostOne(S) == {<<>>} \cup {<<x>> : x \in S}

PadLen == BaseScore + 3
Pad == [i \in 1..PadLen |-> [weight |-> 0, nodes |-> <<>>]]

OutFiles ==
    [paths : AtMostOne(Lines), cycles : AtMostOne(Lines)]
    \cup [paths : AtMostOne(Lines), cycles : {Pad}]

TruthFiles ==
    [paths : AtMostOne([weight : NetFlows, nodes : {<<>>, <<1, 2>>}]),
     cycles : {<<>>}]

\* With test True only the header of the truth file is read.
TruthHeaders ==
    [paths : AtMostOne({[weight |-> 1, nodes |-> <<1, 2>>]}), cycles : {<<>>}]

InitV ==
    /\ graph_file \in NetFiles
    /\ adj = <<>>
    /\ P = <<>>
    /\ C = <<>>
    /\ pc = "files"
    /\ out_file = NoFile
    /\ truth_file = NoFile
    /\ test = FALSE
    /\ result = NoResult
    /\ total_score = 0
    /\ fixtures_left = 0

\* The call of the batch run (__main__): test is False, so the fixture is
\* validated first.
VerifyBatch ==
    /\ pc = "files"
    /\ \E o \in OutFiles, t \in TruthFiles :
          /\ out_file' = o
          /\ truth_file' = t
          /\ test' = FALSE
          /\ result' = verify_solution(graph_file, t, o, FALSE)
    /\ pc' = "verified"
    /\ UNCHANGED <<graph_file, adj, P, C, total_score, fixtures_left>>

\* A call with test True, as validate_test makes it: no validation.
VerifyTest ==
    /\ pc = "files"
    /\ \E o \in OutFiles, t \in TruthHeaders :
          /\ out_file' = o
          /\ truth_file' = t
          /\ test' = TRUE
          /\ result' = verify_solution(graph_file, t, o, TRUE)
    /\ pc' = "verified"
    /\ UNCHANGED <<graph_file, adj, P, C, total_score, fixtures_left>>

NextV == VerifyBatch \/ VerifyTest

SpecV == InitV /\ [][NextV]_vars

----------------------------------------------------------------------------
(* SpecB: the batch run of __main__ over a directory of MaxFixtures .graph *)
(* files.  Each visit of the loop either skips the file (its .truth or     *)
(* .out file is missing) or calls verify_solution with test False and adds *)
(* what it returns to total_score; an exception of the call is caught by   *)
(* the loop, which goes on with the next file.  The candidates of a batch   *)
(* fixture hold one line: a path or a cycle.                               *)

BatchOutFiles ==
    {NoFile} \cup [paths : {<<x>> : x \in Lines}, cycles : {<<>>}]
             \cup [paths : {<<>>}, cycles : {<<x>> : x \in Lines}]

InitB ==
    /\ graph_file = [V |-> Cardinality(NetVertices), edges |-> <<>>]
    /\ adj = <<>>
    /\ P = <<>>
    /\ C = <<>>
    /\ pc = "batch"
    /\ out_file = NoFile
    /\ truth_file = NoFile
    /\ test = FALSE
    /\ result = NoResult
    /\ total_score = 0
    /\ fixtures_left = MaxFixtures

\* The head of the loop: the next .graph file, whose .truth and .out files
\* exist.
BatchPick ==
    /\ pc = "batch"
    /\ fixtures_left > 0
    /\ graph_file' \in NetFiles
    /\ truth_file' \in TruthFiles
    /\ out_file' \in BatchOutFiles
    /\ result' = NoResult
    /\ pc' = "picked"
    /\ UNCHANGED <<adj, P, C, test, total_score, fixtures_left>>

\* The next .graph file has no .truth or no .out file: "Skipping...".
BatchSkip ==
    /\ pc = "batch"
    /\ fixtures_left > 0
    /\ fixtures_left' = fixtures_left - 1
    /\ UNCHANGED <<graph_file, adj, P, C, pc, out_file, truth_file, test,
                   result, total_score>>

\* score = verify_solution(...); total_score += score, inside
\* try / except Exception.
BatchScore ==
    /\ pc = "picked"
    /\ LET r == verify_solution(graph_file, truth_file, out_file, FALSE)
       IN /\ result' = r
          /\ total_score' = IF r.kind = "raise" THEN total_score
                            ELSE total_score + r.val
    /\ fixtures_left' = fixtures_left - 1
    /\ pc' = "scored"
    /\ UNCHANGED <<graph_file, adj, P, C, out_file, truth_file, test>>

\* Back to the head of the loop: the names of the visit are rebound there.
BatchContinue ==
    /\ pc = "scored"
    /\ graph_file' = [V |-> Cardinality(NetVertices), edges |-> <<>>]
    /\ out_file' = NoFile
    /\ truth_file' = NoFile
    /\ result' = NoResult
    /\ pc' = "batch"
    /\ UNCHANGED <<adj, P, C, test, total_score, fixtures_left>>

NextB == BatchPick \/ BatchSkip \/ BatchScore \/ BatchContinue

SpecB == InitB /\ [][NextB]_vars

----------------------------------------------------------------------------
(* SpecF: validate_test(graph_file, truth_file) on fixtures at and beyond  *)
(* the limits: V is 2, LimitV or LimitV + 1, the edge lines leave vertex 1 *)
(* with a flow of 1, LimitFlow or LimitFlow + 1, and a file holds at most  *)
(* two of them, or LimitE or LimitE + 1 lines "1 2 1".  The truth file has *)
(* at most one path line, or LimitRecords or LimitRecords + 1 path lines   *)
(* "5 1 2", and no cycle line, or LimitRecords or LimitRecords + 1 cycle   *)
(* lines "0".                                                              *)

Repeat(x, n) == [i \in 1..n |-> x]

FixtureV == {2, LimitV, LimitV + 1}

FixtureLines == [u : {1}, v : FixtureV, f : {1, LimitFlow, LimitFlow + 1}]

FixtureEdgeLists ==
    {<<>>} \cup {<<e>> : e \in FixtureLines}
           \cup {<<d, e>> : d \in FixtureLines, e \in FixtureLines}
           \cup {Repeat([u |-> 1, v |-> 2, f |-> 1], n) : n \in {LimitE, LimitE + 1}}

FixtureNets == [V : FixtureV, edges : FixtureEdgeLists]

FixturePathLine == [weight |-> LimitE \div LimitRecords, nodes |-> <<1, 2>>]

FixtureTruths ==
    [paths : AtMostOne([weight : {1, LimitFlow, LimitFlow + 1},
                        nodes : {<<>>} \cup {<<1, v>> : v \in FixtureV}])
             \cup {Repeat(FixturePathLine, n) : n \in {LimitRecords, LimitRecords + 1}},
     cycles : {Repeat([weight |-> 0, nodes |-> <<>>], n) :
                  n \in {0, LimitRecords, LimitRecords + 1}}]

InitF ==
    /\ graph_file \in FixtureNets
    /\ adj = <<>>
    /\ P = <<>>
    /\ C = <<>>
    /\ pc = "fixture"
    /\ out_file = NoFile
    /\ truth_file = NoFile
    /\ test = FALSE
    /\ result = NoResult
    /\ total_score = 0
    /\ fixtures_left = 0

\* validate_test(graph_file, truth_file): result.diag is what it returns,
\* or "raise".
ValidateFixture ==
    /\ pc = "fixture"
    /\ \E t \in FixtureTruths :
          /\ truth_file' = t
          /\ result' = [NoResult EXCEPT !.kind = "validate_test",
                                        !.diag = validate_test(graph_file, t)]
    /\ pc' = "validated"
    /\ UNCHANGED <<graph_file, adj, P, C, out_file, test, total_score,
                   fixtures_left>>

NextF == ValidateFixture

SpecF == InitF /\ [][NextF]_vars

----------------------------------------------------------------------------
(* SpecP: find_path(graph) on the networks of two to four vertices with at *)
(* most four edge lines of flow 0 or 1, where two walks of the same length *)
(* from 1 to V exist.                                                      *)

PathLines(V) == [u : 1..V, v : 1..V, f : {0, 1}]

RECURSIVE PathEdgeLists(_, _)
PathEdgeLists(V, n) ==
    IF n = 0 THEN {<<>>}
    ELSE LET S == PathEdgeLists(V, n - 1)
         IN S \cup {Append(s, e) :
                      <<s, e>> \in {x \in {t \in S : Len(t) = n - 1} \X PathLines(V) :
                                      x[1] = <<>> \/ x[1][Len(x[1])].u <= x[2].u}}

PathFiles == UNION {[V : {n}, edges : PathEdgeLists(n, 4)] : n \in 2..4}

InitP ==
    /\ graph_file \in PathFiles
    /\ adj = parse_input(graph_file)
    /\ P = <<>>
    /\ C = <<>>
    /\ pc = "search"
    /\ out_file = NoFile
    /\ truth_file = NoFile
    /\ test = FALSE
    /\ result = NoResult
    /\ total_score = 0
    /\ fixtures_left = 0

\* path_nodes, weight = find_path(graph): P holds what was returned.
PathSearch ==
    /\ pc = "search"
    /\ LET r == find_path(adj, graph_file.V)
       IN /\ pc' = r.status
          /\ P' = IF r.status = "found"
                  THEN <<[weight |-> r.weight, nodes |-> r.nodes]>>
                  ELSE P
    /\ UNCHANGED <<graph_file, adj, C, out_file, truth_file, test, result,
                   total_score, fixtures_left>>

NextP == PathSearch

SpecP == InitP /\ [][NextP]_vars

----------------------------------------------------------------------------
(* What the claims about the decomposer speak of. *)

\* The input network as the verifier reads it: (u, v) -> summed flow.
OriginalNet == score_parse_input(graph_file)

\* The decomposition written so far, as a candidate file.
Emitted == [paths |-> P, cycles |-> C]

\* The flows of the file's lines into and out of vertex x.
RECURSIVE InFlow(_, _)
InFlow(edges, x) ==
    IF edges = <<>> THEN 0
    ELSE (IF Head(edges).v = x THEN Head(edges).f ELSE 0) + InFlow(Tail(edges), x)

RECURSIVE OutFlow(_, _)
OutFlow(edges, x) ==
    IF edges = <<>> THEN 0
    ELSE (IF Head(edges).u = x THEN Head(edges).f ELSE 0) + OutFlow(Tail(edges), x)

\* Flow conservation at every vertex other than the source 1 and the sink V.
Conserved ==
    \A x \in 2..(graph_file.V - 1) :
        InFlow(graph_file.edges, x) = OutFlow(graph_file.edges, x)

TotalOriginalFlow == SumSeq([i \in 1..Len(graph_file.edges) |-> graph_file.edges[i].f])

\* C1: after decompose_flow has returned on a network that conserves flow
\* at every internal vertex, the verifier's reconstruction from the emitted
\* paths and cycles gives every (u, v) of the input exactly its original
\* (summed) flow.
C1_RoundTrip ==
    (pc = "done" /\ Conserved) =>
        LET r == calculated_flow(OriginalNet, Emitted)
        IN /\ r.status = "ok"
           /\ \A k \in DOMAIN OriginalNet.flow : r.calc[k] = OriginalNet.flow[k]

\* C2: in every state of decompose_flow the residual flow of every edge
\* record is >= 0 (the input flows are all >= 0, parallel edges allowed).
C2_ResidualNonNegative ==
    \A u \in DOMAIN adj : \A i \in 1..Len(adj[u]) : adj[u][i].f >= 0

\* C3: every record appended to P and every record appended to C has
\* weight >= 1.
C3_WeightPositive ==
    /\ \A i \in 1..Len(P) : P[i].weight >= 1
    /\ \A i \in 1..Len(C) : C[i].weight >= 1

\* A run that has emitted a path and a cycle, from a file with parallel
\* (u, v) lines one of which carries flow 0.
C3_Witness ==
    /\ P # <<>>
    /\ C # <<>>
    /\ \E i, j \in 1..Len(graph_file.edges) :
          /\ i # j
          /\ graph_file.edges[i].u = graph_file.edges[j].u
          /\ graph_file.edges[i].v = graph_file.edges[j].v
          /\ graph_file.edges[i].f = 0

\* C4: decompose_flow terminates, and the number of iterations of the two
\* loops that extract a record is at most the sum of the original flows.
C4_IterationBound == Len(P) + Len(C) <= TotalOriginalFlow

\* C5: every path record starts at vertex 1 and ends at vertex V.
C5_PathEndpoints ==
    \A i \in 1..Len(P) :
        /\ P[i].nodes # <<>>
        /\ P[i].nodes[1] = 1
        /\ P[i].nodes[Len(P[i].nodes)] = graph_file.V

\* A path through an internal vertex has been emitted.
C5_Witness == \E i \in 1..Len(P) : Len(P[i].nodes) >= 3

----------------------------------------------------------------------------
(* What the claims about the verifier speak of, said of the candidate      *)
(* itself and not of the verifier's run.                                   *)

Net == score_parse_input(graph_file)

Records(o) == o.paths \o o.cycles

\* Some path line does not start at 1 or does not end at V (or is empty).
BadEndpoint(o) ==
    \E i \in 1..Len(o.paths) :
        LET n == o.paths[i].nodes
        IN n = <<>> \/ n[1] # 1 \/ n[Len(n)] # graph_file.V

EmptyPath(o) == \E i \in 1..Len(o.paths) : o.paths[i].nodes = <<>>

\* Some consecutive pair of some line is no edge of the network.
UnknownEdge(o) ==
    \E i \in 1..Len(Records(o)) :
        LET n == Records(o)[i].nodes
        IN \E j \in 1..(Len(n) - 1) : <<n[j], n[j + 1]>> \notin DOMAIN Net.flow

\* The flow the candidate puts on (u, v): every line's weight, once for
\* every consecutive pair of the line that is (u, v).
Reconstructed(o, k) ==
    SumSeq([i \in 1..Len(Records(o)) |->
              LET n == Records(o)[i].nodes
              IN Records(o)[i].weight
                   * Cardinality({j \in 1..(Len(n) - 1) : <<n[j], n[j + 1]>> = k})])

Mismatch(o) == \E k \in DOMAIN Net.flow : Reconstructed(o, k) # Net.flow[k]

Passes(o) == ~BadEndpoint(o) /\ ~UnknownEdge(o) /\ ~Mismatch(o)

Verified == pc = "verified"

\* The candidate is really verified: the call has test True, or the
\* fixture passes validate_test.
FixtureAccepted == test \/ validate_test(graph_file, truth_file) = "True"

ReturnsFailure == result.kind = "return" /\ result.val = 0

\* C7: for every candidate with a path whose first vertex is not 1 or whose
\* last vertex is not V, a path line without vertices included,
\* verify_solution returns a failure signal (False/0) and does not raise.
C7_BadEndpointFails == (Verified /\ BadEndpoint(out_file)) => ReturnsFailure

\* C8 as claimed: for every candidate with a consecutive pair (u, v) that is
\* no edge of the network, verify_solution returns a failure signal.
C8_UnknownEdgeFails == (Verified /\ UnknownEdge(out_file)) => ReturnsFailure

\* C8 as amended: when the candidate is really verified (test mode, or a
\* fixture that passes validate_test), a candidate with an unknown edge
\* never gets a positive score: verify_solution returns False/0, or raises
\* IndexError when a path line without vertices is met first.
C8_UnknownEdgeNoScore ==
    (Verified /\ UnknownEdge(out_file) /\ FixtureAccepted) =>
        \/ ReturnsFailure
        \/ result.kind = "raise" /\ EmptyPath(out_file)

\* An unknown edge on the cycle line of a batch call is refused as such.
C8_Witness ==
    /\ Verified /\ ~test /\ validate_test(graph_file, truth_file) = "True"
    /\ UnknownEdge(out_file) /\ ~UnknownEdge([out_file EXCEPT !.cycles = <<>>])
    /\ result.diag = "edge" /\ result.val = 0

\* C9 as claimed: if the reconstructed flow differs from the original flow
\* on some original edge, no positive score is returned.
C9_MismatchFails ==
    (Verified /\ Mismatch(out_file)) => ~(result.kind = "return" /\ result.val > 0)

\* C9 as amended: the same when the candidate is really verified (test
\* mode, or a fixture that passes validate_test).
C9_MismatchNoScore ==
    (Verified /\ Mismatch(out_file) /\ FixtureAccepted) =>
        ~(result.kind = "return" /\ result.val > 0)

\* A batch call refuses a candidate whose only fault is too much flow on
\* an edge declared twice (the two declarations added up).
C9_Witness ==
    /\ Verified /\ ~test /\ validate_test(graph_file, truth_file) = "True"
    /\ ~BadEndpoint(out_file) /\ ~UnknownEdge(out_file) /\ Mismatch(out_file)
    /\ Len(graph_file.edges) = 2
    /\ graph_file.edges[1].u = graph_file.edges[2].u
    /\ graph_file.edges[1].v = graph_file.edges[2].v
    /\ \E k \in DOMAIN Net.flow : Reconstructed(out_file, k) > Net.flow[k]
    /\ result.diag = "mismatch"

RefCount == Len(truth_file.paths) + Len(truth_file.cycles)
CandCount == Len(out_file.paths) + Len(out_file.cycles)

ScoreFormula ==
    IF BaseScore + RefCount - CandCount >= 1
    THEN BaseScore + RefCount - CandCount ELSE 1

\* C10 as claimed: whenever the candidate passes verification (good
\* endpoints, known edges, reconstructed flow equal to the original), the
\* value returned is max(1, 40 + reference counts - candidate counts).
C10_ScoreOfPassing ==
    (Verified /\ Passes(out_file)) =>
        result.kind = "return" /\ result.val = ScoreFormula

\* C10 as amended: the same when the candidate is really verified (test
\* mode, or a fixture that passes validate_test).
C10_ScoreOfVerified ==
    (Verified /\ Passes(out_file) /\ FixtureAccepted) =>
        result.kind = "return" /\ result.val = ScoreFormula

\* A passing candidate of a batch call with more lines than 40 plus the
\* reference's: the floor of 1 decides.
C10_Witness ==
    /\ Verified /\ ~test /\ Passes(out_file)
    /\ out_file.paths # <<>>
    /\ BaseScore + RefCount - CandCount < 1
    /\ result.val = 1


----------------------------------------------------------------------------
(* The batch run. *)

Picked == pc = "picked"

FailingCandidate ==
    BadEndpoint(out_file) \/ UnknownEdge(out_file) \/ Mismatch(out_file)

FixtureValid == validate_test(graph_file, truth_file) = "True"

AddsNothing ==
    /\ total_score' = total_score
    /\ pc' = "scored"
    /\ fixtures_left' = fixtures_left - 1

\* C11: in a batch run, every fixture whose candidate has a bad path
\* endpoint, names an unknown edge or has a flow mismatch adds exactly 0 to
\* total_score, and the loop goes on with the remaining fixtures.
C11_FailureAddsNothing == [][(Picked /\ FailingCandidate) => AddsNothing]_vars

\* C11, for the fixtures that pass validate_test: a candidate with a bad
\* path endpoint, an unknown edge or a flow mismatch adds exactly 0 to
\* total_score (verify_solution returns False, or raises and the loop
\* catches it), and the loop goes on with the remaining fixtures.
C11_FailureOfValidAddsNothing ==
    [][(Picked /\ FailingCandidate /\ FixtureValid) => AddsNothing]_vars

\* The last fixture of a run passes validate_test and its candidate raises
\* in verify_solution (a path line without vertices), after an earlier
\* fixture has scored.
C11_Witness ==
    /\ pc = "scored"
    /\ fixtures_left = 0
    /\ total_score > 0
    /\ FailingCandidate
    /\ FixtureValid
    /\ result.kind = "raise"


----------------------------------------------------------------------------
(* validate_test. *)

Validated == pc = "validated"

OverLimits ==
    \/ graph_file.V > LimitV
    \/ Len(graph_file.edges) > LimitE
    \/ \E k \in DOMAIN Net.flow : Net.flow[k] > LimitFlow
    \/ Len(truth_file.paths) > LimitRecords
    \/ Len(truth_file.cycles) > LimitRecords

ReferenceFails == ~Passes(truth_file)

\* C12: validate_test returns False whenever V > 50, E > 100, some original
\* edge flow > 1000, the reference has more than 20 paths or more than 20
\* cycles, or the reference fails verification against its own network;
\* it returns True only when none of these holds.
C12_ValidateTest ==
    Validated =>
        /\ (OverLimits \/ ReferenceFails) => result.diag = "False"
        /\ result.diag = "True" => ~(OverLimits \/ ReferenceFails)


----------------------------------------------------------------------------
(* find_path and the two loops of decompose_flow. *)

InPathPhase == pc = "path"

NextPath == find_path(adj, graph_file.V)

\* C13: whenever find_path returns a walk, parallel edges included, the
\* weight it returns is an integer >= 1.
C13_PathWeightPositive ==
    (InPathPhase /\ NextPath.status = "found") =>
        (NextPath.weight \in Int /\ NextPath.weight >= 1)


\* The pairs (u, v) joined by a record of adj with residual flow > 0.
PositivePairs ==
    UNION {{<<u, adj[u][i].v>> : i \in {j \in DOMAIN adj[u] : adj[u][j].f > 0}} :
              u \in DOMAIN adj}

\* The vertices the walks over the pairs of pp lead to from S.
RECURSIVE ReachFrom(_, _)
ReachFrom(pp, S) ==
    LET T == S \cup {e[2] : e \in {x \in pp : x[1] \in S}}
    IN IF T = S THEN S ELSE ReachFrom(pp, T)

Reaches(a, b) == a = b \/ b \in ReachFrom(PositivePairs, {a})

OnPositiveWalk(e) == Reaches(1, e[1]) /\ Reaches(e[2], graph_file.V)

OnPositiveCycle(e) == Reaches(e[2], e[1])

\* Positive residual flow on an edge that lies on no positive walk from 1
\* to V and on no positive cycle.
StrandedFlow ==
    \E e \in PositivePairs : ~OnPositiveWalk(e) /\ ~OnPositiveCycle(e)

\* Nothing but stranded flow is left.
OnlyStrandedFlow ==
    /\ PositivePairs # {}
    /\ \A e \in PositivePairs : ~OnPositiveWalk(e) /\ ~OnPositiveCycle(e)

\* C14: if the input violates conservation so that positive residual flow
\* remains on an edge on no positive walk from 1 to V and on no positive
\* cycle, the loops of decompose_flow do not terminate: decompose_flow
\* never returns with such an edge left.
C14_StrandedNeverReturns == (~Conserved /\ StrandedFlow) => pc # "done"

\* C14, as the loops behave: once only stranded flow is left, the path loop
\* breaks into the cycle loop and the cycle loop breaks, the residuals
\* untouched and nothing emitted.
C14_StrandedFlowBreaks ==
    [][(~Conserved /\ OnlyStrandedFlow) =>
          /\ adj' = adj /\ P' = P /\ C' = C
          /\ pc' = (IF pc = "path" THEN "cycle" ELSE "done")]_vars

\* decompose_flow has returned a path for a network that violates
\* conservation, with nothing but stranded flow left.
C14_Witness ==
    /\ pc = "done"
    /\ ~Conserved
    /\ OnlyStrandedFlow
    /\ P # <<>>


\* C15: when decompose_flow returns, the residual graph holds no walk from
\* 1 to V made only of edges with residual flow > 0 and no cycle made only
\* of edges with residual flow > 0.
C15_Fixpoint ==
    pc = "done" =>
        /\ ~Reaches(1, graph_file.V)
        /\ \A e \in PositivePairs : ~OnPositiveCycle(e)


\* The sum of the residual counters of all records of adj.
RECURSIVE RowTotal(_, _)
RowTotal(row, i) == IF i = 0 THEN 0 ELSE row[i].f + RowTotal(row, i - 1)

RECURSIVE GraphTotal(_, _)
GraphTotal(g, u) ==
    IF u = 0 THEN 0 ELSE RowTotal(g[u], Len(g[u])) + GraphTotal(g, u - 1)

TotalResidual == GraphTotal(adj, Len(adj))

Emits == P' # P \/ C' # C

\* C16: every iteration of the path loop or of the cycle loop that emits a
\* record lowers the total residual flow by at least 1, and no step raises
\* the residual counter of any edge.
C16_PotentialDecreases ==
    [][/\ Emits => TotalResidual' <= TotalResidual - 1
       /\ adj' # adj => \A u \in DOMAIN adj : \A i \in DOMAIN adj[u] :
                             adj'[u][i].f <= adj[u][i].f]_vars

\* Both loops have emitted and the total residual flow is below the total
\* flow of the input.
C16_Witness ==
    /\ P # <<>>
    /\ C # <<>>
    /\ TotalResidual < TotalOriginalFlow


\* C17: all path extractions (find_path calls and path subtractions) come
\* before the first cycle extraction, and once the cycle loop has started
\* no path is searched for or emitted any more.
C17_PhaseOrder ==
    [][/\ pc = "path" => (C = <<>> /\ C' = <<>>)
       /\ pc # "path" => (pc' # "path" /\ P' = P)]_vars

\* The cycle loop is running after both loops have emitted.
C17_Witness ==
    /\ pc = "cycle"
    /\ P # <<>>
    /\ C # <<>>


\* The record the cycle loop appends in this step, and its vertices without
\* the closing repeat.
NewCycle == C'[Len(C')]

Unclosed(nodes) == SubSeq(nodes, 1, Len(nodes) - 1)

\* C18: every emitted cycle, its closing repeat left out, is made of
\* pairwise distinct vertices, and each consecutive pair of it, the closing
\* pair included, was joined by a record with residual flow > 0 when the
\* cycle was extracted.
C18_CycleSimple ==
    [][C' # C =>
          LET c == Unclosed(NewCycle.nodes)
              positive == PositivePairs
          IN /\ c # <<>>
             /\ \A i, j \in DOMAIN c : i # j => c[i] # c[j]
             /\ \A i \in DOMAIN c :
                    <<c[i], c[(i % Len(c)) + 1]>> \in positive]_vars

\* A cycle through two vertices has been emitted.
C18_Witness == C # <<>> /\ Len(C[Len(C)].nodes) = 3


----------------------------------------------------------------------------
(* The walk find_path returns. *)

\* The walks from 1 to V over pairwise distinct vertices and positive
\* pairs.  A walk of the fewest edges is one of them.
PositiveWalks ==
    {w \in UNION {[1..n -> 1..graph_file.V] : n \in 2..graph_file.V} :
        /\ w[1] = 1 /\ w[Len(w)] = graph_file.V
        /\ \A i, j \in DOMAIN w : i # j => w[i] # w[j]
        /\ \A i \in 1..(Len(w) - 1) : <<w[i], w[i + 1]>> \in PositivePairs}

ShortestWalks == {w \in PositiveWalks : \A x \in PositiveWalks : Len(w) <= Len(x)}

\* The place in adj[u] of the first record with flow > 0 that leads to v.
FirstPositive(u, v) ==
    MinOf({i \in DOMAIN adj[u] : adj[u][i].v = v /\ adj[u][i].f > 0})

\* Walk w leaves the walk x, of the same length, at an earlier record: at
\* the first vertex where they part, w takes the record inserted first.
Earlier(w, x) ==
    \E k \in 1..(Len(w) - 1) :
        /\ \A i \in 1..k : w[i] = x[i]
        /\ w[k + 1] # x[k + 1]
        /\ FirstPositive(w[k], w[k + 1]) < FirstPositive(x[k], x[k + 1])

\* C19: find_path returns a walk of the fewest edges, and among the walks
\* of that length the one found by exploring the outgoing edges of every
\* vertex in insertion order; it returns none only if there is no walk.
C19_ShortestFirstInserted ==
    /\ pc = "found" =>
          /\ P[1].nodes \in ShortestWalks
          /\ \A x \in ShortestWalks \ {P[1].nodes} : Earlier(P[1].nodes, x)
    /\ pc = "none" => PositiveWalks = {}

\* Two walks of two edges lead from 1 to 4, and find_path has returned the
\* one through 3, whose first edge was inserted before the edge to 2.
C19_Witness ==
    /\ pc = "found"
    /\ Cardinality(ShortestWalks) = 2
    /\ P[1].nodes = <<1, 3, 4>>


----------------------------------------------------------------------------
(* Flow accounting. *)

\* The flows of the lines (u, v) of the input, added up.
RECURSIVE LineFlow(_, _, _, _)
LineFlow(edges, u, v, i) ==
    IF i = 0 THEN 0
    ELSE (IF edges[i].u = u /\ edges[i].v = v THEN edges[i].f ELSE 0)
           + LineFlow(edges, u, v, i - 1)

OriginalSum(u, v) == LineFlow(graph_file.edges, u, v, Len(graph_file.edges))

\* The residual counters of the records of adj[u] that lead to v, added up.
RECURSIVE RowFlow(_, _, _)
RowFlow(row, v, i) ==
    IF i = 0 THEN 0
    ELSE (IF row[i].v = v THEN row[i].f ELSE 0) + RowFlow(row, v, i - 1)

ResidualSum(u, v) == RowFlow(adj[u], v, Len(adj[u]))

\* The number of places up to j where (u, v) is a consecutive pair of nodes.
RECURSIVE Occurrences(_, _, _, _)
Occurrences(nodes, u, v, j) ==
    IF j <= 0 THEN 0
    ELSE (IF nodes[j] = u /\ nodes[j + 1] = v THEN 1 ELSE 0)
           + Occurrences(nodes, u, v, j - 1)

\* Weight times occurrences of (u, v), over the first i records.
RECURSIVE RecordsFlow(_, _, _, _)
RecordsFlow(records, u, v, i) ==
    IF i = 0 THEN 0
    ELSE records[i].weight
           * Occurrences(records[i].nodes, u, v, Len(records[i].nodes) - 1)
           + RecordsFlow(records, u, v, i - 1)

EmittedFlow(u, v) == RecordsFlow(P, u, v, Len(P)) + RecordsFlow(C, u, v, Len(C))

\* The pairs (u, v) of the lines of the input, of the records of adj and
\* of the emitted records.  For every other pair the three sums are 0.
AccountedPairs ==
    {<<graph_file.edges[i].u, graph_file.edges[i].v>> : i \in DOMAIN graph_file.edges}
    \cup UNION {{<<u, adj[u][i].v>> : i \in DOMAIN adj[u]} : u \in DOMAIN adj}
    \cup UNION {{<<P[i].nodes[j], P[i].nodes[j + 1]>> : j \in 1..(Len(P[i].nodes) - 1)} :
                  i \in DOMAIN P}
    \cup UNION {{<<C[i].nodes[j], C[i].nodes[j + 1]>> : j \in 1..(Len(C[i].nodes) - 1)} :
                  i \in DOMAIN C}

FlowAccounted ==
    \A k \in AccountedPairs :
        /\ k[1] \in DOMAIN adj
        /\ OriginalSum(k[1], k[2]) = ResidualSum(k[1], k[2]) + EmittedFlow(k[1], k[2])

\* C20: in every state and for every pair (u, v), the original flows of
\* all edges (u, v) add up to their residual counters plus, over the
\* emitted records, weight times the number of times (u, v) is a
\* consecutive pair of the record's closed vertex sequence.
C20_FlowAccounting == []FlowAccounted

\* decompose_flow has returned paths and cycles and left flow behind.
C20_Witness ==
    /\ pc = "done"
    /\ P # <<>>
    /\ C # <<>>
    /\ \E u, v \in 1..graph_file.V : ResidualSum(u, v) # 0

====
